---------------------------- MODULE Spec2Model ----------------------------
(***************************************************************************)
(* Model of the workflow analyzer orchestrator                             *)
(* (WorkflowAnalyzerOrchestrator.analyze_workflow and its helpers), one    *)
(* analysis run on one asyncio event loop.                                 *)
(*                                                                         *)
(* Scores are held in hundredths (0.5 is 50, 0.6 is 60).  An Optional      *)
(* field is a sequence of length 0 (None) or 1 (a value).                  *)
(*                                                                         *)
(* _run_agent2 and _run_agent3 are coroutines without any await inside     *)
(* (assess_risk and analyze are plain calls), so each task body is one     *)
(* step of the event loop; the loop runs its ready callbacks first in,     *)
(* first out.                                                              *)
(***************************************************************************)
EXTENDS Integers, Sequences, FiniteSets, TLC

VARIABLES
    pc,          \* position of the analyze_workflow coroutine
    session,     \* the SessionState of the run
    tasks,       \* agent2_task / agent3_task: state, result, exception
    gather,      \* the future returned by asyncio.gather
    ready,       \* the event loop's ready queue (FIFO)
    outcome,     \* what analyze_workflow gave its caller: value or exception
    log,         \* StructuredLogger entries, in order
    spans,       \* DistributedTracer.spans[trace_id]
    counters,    \* MetricsCollector counters
    observed,    \* what each agent read from the session when it ran
    workflow_text, \* the argument of analyze_workflow: its length in characters
    tool_call,   \* the last call of a custom tool: tool, input, outcome
    workflows,   \* the Firestore collection workflows/{workflow_id}
    reply,       \* the outcome of the last call of the repository / org design
    ui,          \* the React state of App: analysisResult, selectedWorkflowId, ...
    calls,       \* the invocations of the async handlers of App
    last_selected \* the entry of the sidebar the user clicked last

vars == <<pc, session, tasks, gather, ready, outcome, log, spans, counters,
          observed, workflow_text, tool_call, workflows, reply, ui, calls,
          last_selected>>

\* the state of the frontend
FrontendVars == <<ui, calls, last_selected>>

---------------------------------------------------------------------------
(* Bounds of the model *)

MaxSteps == 2

\* other runs of analyze_workflow on the same orchestrator
MaxOtherRuns == 1

\* the number of handler invocations of a frontend session
MaxCalls == 3

---------------------------------------------------------------------------
(* Program constants *)

AUTOMATION_FEASIBLE_THRESHOLD == 60

FALLBACK_SCORE == 50

RISK_LEVELS == {"LOW", "MEDIUM", "HIGH", "CRITICAL"}

AGENT_TYPES == {"adk_base", "agentic_rag", "TOOL", "HUMAN"}

MAX_WORKFLOW_LENGTH == 10000

MIN_WORKFLOW_LENGTH == 10

---------------------------------------------------------------------------
(* Optional values *)

None == <<>>

Some(v) == <<v>>

IsSome(o) == Len(o) = 1

Get(o) == o[1]

---------------------------------------------------------------------------
(* Data returned by the three agents (the model-calling collaborator).     *)

StepIds == 1..MaxSteps

\* ids an agent can name in a view: the parsed ids and one id that no
\* parsed step has
ViewIds == 1..(MaxSteps + 1)

\* the dependencies of a parsed step: the ids of the steps that must finish
\* first (no id or one id, among the ids a list can name)
DependencyLists == {{}} \cup {{i} : i \in ViewIds}

\* ParsedWorkflow: a list of steps with distinct step_id (ParsedStep ids are
\* unique within a run)
ParsedWorkflows(Deps) ==
    {s \in UNION {[1..n -> [step_id : StepIds, dependencies : Deps]] :
                      n \in 0..MaxSteps} :
        \A i, j \in 1..Len(s) : i # j => s[i].step_id # s[j].step_id}

\* the parsed workflows whose steps depend on no other step
ParsedOutputs == ParsedWorkflows({{}})

\* the parsed workflows with any dependencies: the parser returns what the
\* model call answered
ParsedOutputsAnyDeps == ParsedWorkflows(DependencyLists)

RiskProfiles ==
    {[risk_level |-> "LOW", requires_hitl |-> FALSE],
     [risk_level |-> "HIGH", requires_hitl |-> TRUE]}

AutoProfiles ==
    {[agent_type |-> "adk_base", determinism_score |-> 100,
      automation_feasibility |-> 95, requires_hitl |-> FALSE],
     [agent_type |-> "HUMAN", determinism_score |-> 30,
      automation_feasibility |-> 60, requires_hitl |-> TRUE]}

RiskViews ==
    {[step_id |-> i, risk_level |-> p.risk_level,
      requires_hitl |-> p.requires_hitl] : i \in ViewIds, p \in RiskProfiles}

AutoViews ==
    {[step_id |-> i, agent_type |-> p.agent_type,
      determinism_score |-> p.determinism_score,
      automation_feasibility |-> p.automation_feasibility,
      requires_hitl |-> p.requires_hitl] : i \in ViewIds, p \in AutoProfiles}

\* lists of views by ascending step_id, at most one view per id; an id
\* without a view is a step the agent produced nothing for
ViewLists(Views) ==
    {s \in UNION {[1..n -> Views] : n \in 0..(MaxSteps + 1)} :
        \A i \in 1..(Len(s) - 1) : s[i].step_id < s[i + 1].step_id}

RiskOutputs == ViewLists(RiskViews)

AutoOutputs == ViewLists(AutoViews)

\* what a failing model call raises; "json_decode" is raised by json.loads,
\* after the latency of the call was recorded
FailureKinds == {"api_error", "timeout", "json_decode"}

---------------------------------------------------------------------------
(* _merge_results *)

\* next((v for v in views if v.step_id == id), None)
FirstMatch(views, id) ==
    LET idx == {i \in 1..Len(views) : views[i].step_id = id}
    IN  IF idx = {} THEN None
        ELSE Some(views[CHOOSE i \in idx : \A j \in idx : i <= j])

MergeHitl(risk_data, auto_data) ==
    IF IsSome(risk_data) /\ IsSome(auto_data)
    THEN Get(risk_data).requires_hitl \/ Get(auto_data).requires_hitl
    ELSE FALSE

\* the same, with HUMAN as the agent_type of a step without automation data
MergeStepHumanFallback(step, risks, automation) ==
    LET risk_data == FirstMatch(risks, step.step_id)
        auto_data == FirstMatch(automation, step.step_id)
    IN  [step_id |-> step.step_id,
         dependencies |-> step.dependencies,
         agent_type |-> IF IsSome(auto_data) THEN Get(auto_data).agent_type
                        ELSE "HUMAN",
         determinism_score |->
             IF IsSome(auto_data) THEN Get(auto_data).determinism_score
             ELSE FALLBACK_SCORE,
         automation_feasibility |->
             IF IsSome(auto_data) THEN Get(auto_data).automation_feasibility
             ELSE FALLBACK_SCORE,
         risk_level |-> IF IsSome(risk_data) THEN Get(risk_data).risk_level
                        ELSE "LOW",
         requires_hitl |-> MergeHitl(risk_data, auto_data)]

MergeStep(step, risks, automation) ==
    LET risk_data == FirstMatch(risks, step.step_id)
        auto_data == FirstMatch(automation, step.step_id)
    IN  [step_id |-> step.step_id,
         dependencies |-> step.dependencies,
         agent_type |-> IF IsSome(auto_data) THEN Get(auto_data).agent_type
                        ELSE "adk_base",
         determinism_score |->
             IF IsSome(auto_data) THEN Get(auto_data).determinism_score
             ELSE FALLBACK_SCORE,
         automation_feasibility |->
             IF IsSome(auto_data) THEN Get(auto_data).automation_feasibility
             ELSE FALLBACK_SCORE,
         risk_level |-> IF IsSome(risk_data) THEN Get(risk_data).risk_level
                        ELSE "LOW",
         requires_hitl |-> MergeHitl(risk_data, auto_data)]

\* a merge driven by the risk assessments instead of the parsed steps: a
\* step without a risk assessment gets no merged step
MergedStepsOverRisks(parsed, risks, automation) ==
    LET assessed == SelectSeq(parsed,
                        LAMBDA st : IsSome(FirstMatch(risks, st.step_id)))
    IN  [i \in 1..Len(assessed) |-> MergeStep(assessed[i], risks, automation)]

MergedSteps(parsed, risks, automation) ==
    [i \in 1..Len(parsed) |-> MergeStep(parsed[i], risks, automation)]

\* sum(1 for s in steps if ...), flags[i] being the condition on steps[i]
Count(flags) == Cardinality({i \in DOMAIN flags : flags[i]})

\* a step that is automatable only above the threshold
IsAutomatableStrict(s) == s.automation_feasibility > AUTOMATION_FEASIBLE_THRESHOLD

IsAutomatable(s) == s.automation_feasibility >= AUTOMATION_FEASIBLE_THRESHOLD

IsHuman(s) == s.agent_type = "HUMAN"

IsAgent(s) == s.agent_type # "HUMAN"

\* the same, with automation_potential taken over the steps that an agent
\* can run instead of the automatable ones
SummaryPotentialOfAgents(steps) ==
    [total_steps |-> Len(steps),
     automatable_count |-> Count([i \in 1..Len(steps) |-> IsAutomatable(steps[i])]),
     agent_required_count |-> Count([i \in 1..Len(steps) |-> IsAgent(steps[i])]),
     human_required_count |-> Count([i \in 1..Len(steps) |-> IsHuman(steps[i])]),
     automation_potential |->
         IF Len(steps) # 0
         THEN [num |-> Count([i \in 1..Len(steps) |-> IsAgent(steps[i])]), den |-> Len(steps)]
         ELSE [num |-> 0, den |-> 1]]

\* automation_potential is the quotient num / den (0.0 is 0 / 1)
Summary(steps) ==
    [total_steps |-> Len(steps),
     automatable_count |-> Count([i \in 1..Len(steps) |-> IsAutomatable(steps[i])]),
     agent_required_count |-> Count([i \in 1..Len(steps) |-> IsAgent(steps[i])]),
     human_required_count |-> Count([i \in 1..Len(steps) |-> IsHuman(steps[i])]),
     automation_potential |->
         IF Len(steps) # 0
         THEN [num |-> Count([i \in 1..Len(steps) |-> IsAutomatable(steps[i])]), den |-> Len(steps)]
         ELSE [num |-> 0, den |-> 1]]

\* with no parsed step the loop body, the only reader of session.risks and
\* session.automation, never runs
MergeResults(sess) ==
    LET steps == IF Len(Get(sess.parsed_steps)) = 0 THEN <<>>
                 ELSE MergedSteps(Get(sess.parsed_steps), Get(sess.risks),
                                  Get(sess.automation))
    IN  [steps |-> steps, summary |-> Summary(steps),
         automation_summary |-> sess.automation_summary]

\* iterating None raises TypeError
MergeRaises(sess) ==
    \/ sess.parsed_steps = None
    \/ /\ Len(Get(sess.parsed_steps)) > 0
       /\ (sess.risks = None \/ sess.automation = None)

---------------------------------------------------------------------------
(* State *)

\* SessionManager.create_session
CreateSession ==
    [parsed_steps |-> None, risks |-> None, automation |-> None,
     final_analysis |-> None,
     agent1_latency |-> FALSE, agent2_latency |-> FALSE,
     agent3_latency |-> FALSE,
     automation_summary |-> None, agent4_latency |-> FALSE,
     errors |-> <<>>]

NoTask == [state |-> "none", result |-> None, exception |-> None]

\* the ids of the workflow documents
WorkflowIds == {"wf_1", "wf_2"}

NEW_WORKFLOW_ID == "__new_workflow__"

\* the handler invocations of one session of the frontend
CallIds == 1..MaxCalls

\* useState(...) of App
InitialUi ==
    [analysisResult |-> None, selectedWorkflowId |-> NEW_WORKFLOW_ID,
     loading |-> FALSE, isApproving |-> FALSE, error |-> None]

\* a handler invocation that has not been made
NoCall ==
    [handler |-> "none", target |-> NEW_WORKFLOW_ID, phase |-> "idle",
     attempt |-> 0, processed |-> 0, created |-> 0, lastError |-> None,
     outcome |-> "none", response |-> None]

\* the state of a new orchestrator, before analyze_workflow is called
InitRun ==
    /\ pc = "start"
    /\ session = CreateSession
    /\ tasks = [t \in {"agent2", "agent3"} |-> NoTask]
    /\ gather = [state |-> "none", nfinished |-> 0, results |-> <<>>,
                 exception |-> None]
    /\ ready = <<>>
    /\ outcome = [kind |-> "running", value |-> None, exception |-> None]
    /\ log = <<>>
    /\ spans = <<>>
    /\ counters = [analyses_total |-> 0, errors_total |-> 0]
    /\ observed = [a \in {"agent2", "agent3"} |-> <<>>]
    /\ tool_call = None
    /\ reply = None
    /\ ui = InitialUi
    /\ calls = [c \in CallIds |-> NoCall]
    /\ last_selected = NEW_WORKFLOW_ID

\* lengths of a workflow text: below the minimum, the two bounds, above the
\* maximum
TextLengths ==
    {MIN_WORKFLOW_LENGTH - 1, MIN_WORKFLOW_LENGTH, MAX_WORKFLOW_LENGTH,
     MAX_WORKFLOW_LENGTH + 1}

\* the collection before any analysis was saved
NoWorkflows == [w \in WorkflowIds |-> None]

\* a run on a text of a length within the configured bounds
Init ==
    /\ InitRun
    /\ workflow_text = MIN_WORKFLOW_LENGTH
    /\ workflows = NoWorkflows

\* a run on a text of any length
InitAnyText ==
    /\ InitRun
    /\ workflow_text \in TextLengths
    /\ workflows = NoWorkflows

---------------------------------------------------------------------------
(* Observability helpers *)

Entry(level, msg) == [level |-> level, msg |-> msg]

\* DistributedTracer.span: the span is appended when the block is left, by
\* return or by exception, always with status "success"
Span(span_id, operation) ==
    [span_id |-> span_id, operation |-> operation, status |-> "success"]

Exc(stage, kind) == [stage |-> stage, kind |-> kind]

\* the except clause of analyze_workflow: logger.error, metrics.record_error,
\* raise
Raised(exc, logBefore) ==
    /\ log' = logBefore \o <<Entry("ERROR", "Workflow analysis failed")>>
    /\ counters' = [counters EXCEPT !.errors_total = @ + 1]
    /\ outcome' = [kind |-> "raised", value |-> None, exception |-> Some(exc)]

---------------------------------------------------------------------------
(* analyze_workflow, up to the await *)

AnalyzeStart ==
    /\ pc = "start"
    /\ session' = CreateSession
    /\ log' = log \o <<Entry("INFO", "Starting workflow analysis")>>
    /\ pc' = "agent1"
    /\ UNCHANGED <<workflow_text, tool_call, workflows, reply, FrontendVars>>
    /\ UNCHANGED <<tasks, gather, ready, outcome, spans, counters, observed>>

\* a parser failure that is logged and then ignored
OnParserFailureContinue == "launch"

\* where the coroutine goes when agent1_parser.parse raises
OnParserFailure == "raised"

Agent1Returns(outputs) ==
    /\ pc = "agent1"
    /\ \E parsed \in outputs :
        /\ session' = [session EXCEPT !.parsed_steps = Some(parsed),
                                      !.agent1_latency = TRUE]
        /\ log' = log \o <<Entry("INFO", "Running Agent 1"),
                           Entry("DEBUG", "Agent 1 found steps")>>
    /\ spans' = Append(spans, Span("agent1_parse", "workflow_parser"))
    /\ pc' = "launch"
    /\ UNCHANGED <<workflow_text, tool_call, workflows, reply, FrontendVars>>
    /\ UNCHANGED <<tasks, gather, ready, outcome, counters, observed>>

Agent1Success == Agent1Returns(ParsedOutputs)

Agent1SuccessAnyDeps == Agent1Returns(ParsedOutputsAnyDeps)

Agent1Failure ==
    /\ pc = "agent1"
    /\ \E kind \in FailureKinds :
        /\ session' = [session EXCEPT
                          !.agent1_latency = (kind = "json_decode")]
        /\ Raised(Exc("agent1", kind),
                  log \o <<Entry("INFO", "Running Agent 1")>>)
    /\ spans' = Append(spans, Span("agent1_parse", "workflow_parser"))
    /\ pc' = OnParserFailure
    /\ UNCHANGED <<workflow_text, tool_call, workflows, reply, FrontendVars>>
    /\ UNCHANGED <<tasks, gather, ready, observed>>

\* the tasks created before the parser was run
CanLaunchEarly == pc \in {"agent1", "launch"}

\* the two create_task calls follow the parser block
CanLaunch == pc = "launch"

\* asyncio.create_task twice, asyncio.gather, await
LaunchTasks ==
    /\ CanLaunch
    /\ log' = log \o <<Entry("INFO", "Launching Agent 2 & 3")>>
    /\ tasks' = [t \in {"agent2", "agent3"} |->
                    [state |-> "pending", result |-> None, exception |-> None]]
    /\ ready' = ready \o <<"agent2_task", "agent3_task">>
    /\ gather' = [gather EXCEPT !.state = "pending"]
    /\ pc' = "await"
    /\ UNCHANGED <<workflow_text, tool_call, workflows, reply, FrontendVars>>
    /\ UNCHANGED <<session, outcome, spans, counters, observed>>

---------------------------------------------------------------------------
(* The two agent tasks *)

NextReady(cb) == ready # <<>> /\ Head(ready) = cb

\* an agent 2 that stores its assessments in session.risks itself
Agent2StoresRisks(sess, risks) ==
    [sess EXCEPT !.agent2_latency = TRUE, !.risks = Some(risks)]

\* what _run_agent2 leaves in the session: assess_risk stores its latency
\* and returns the assessments, which the task keeps as its result
Agent2SessionEffect(sess, risks) == [sess EXCEPT !.agent2_latency = TRUE]

\* an agent 3 that replaces a missing session.risks by an empty list
Agent3ClearsRisks(sess, automation) ==
    [sess EXCEPT !.agent3_latency = TRUE,
                 !.risks = IF @ = None THEN Some(<<>>) ELSE @]

\* what analyze leaves in the session
Agent3SessionEffect(sess, automation) == [sess EXCEPT !.agent3_latency = TRUE]

\* assess_risk builds its prompt from session.parsed_steps
Agent2Reads(sess) == [parsed_steps |-> sess.parsed_steps]

\* analyze builds its prompt from session.parsed_steps and session.risks
Agent3Reads(sess) == [parsed_steps |-> sess.parsed_steps, risks |-> sess.risks]

\* the callbacks of an agent task on the ready queue: the step of its
\* coroutine, and the done callback that gather added to it
TaskCallback(t) == IF t = "agent2" THEN "agent2_task" ELSE "agent3_task"

DoneCallback(t) == IF t = "agent2" THEN "agent2_done" ELSE "agent3_done"

SpanOf(t) == IF t = "agent2" THEN "agent2_risk" ELSE "agent3_automation"

\* how often the block traced under span_id was entered and left
Invocations(span_id) ==
    Cardinality({i \in 1..Len(spans) : spans[i].span_id = span_id})

\* failures of the model call that a later call may not show again
TransientKinds == {"timeout"}

\* a task that runs its agent a second time after any first failure
OnAgentRaiseRetryOnce(t, kind) ==
    IF Invocations(SpanOf(t)) = 0
    THEN [state |-> "pending", next |-> TaskCallback(t)]
    ELSE [state |-> "failed", next |-> DoneCallback(t)]

\* a task that runs its agent again after every transient failure
OnAgentRaiseRetryTransient(t, kind) ==
    IF kind \in TransientKinds
    THEN [state |-> "pending", next |-> TaskCallback(t)]
    ELSE [state |-> "failed", next |-> DoneCallback(t)]

\* _run_agent2 / _run_agent3 do not catch: whatever the agent raises ends
\* the task with that exception, and the loop schedules its done callback
OnAgentRaise(t, kind) == [state |-> "failed", next |-> DoneCallback(t)]

Agent2Success ==
    /\ NextReady("agent2_task")
    /\ observed' = [observed EXCEPT !["agent2"] = <<Agent2Reads(session)>>]
    /\ \E risks \in RiskOutputs :
        /\ session' = Agent2SessionEffect(session, risks)
        /\ tasks' = [tasks EXCEPT !["agent2"] =
                        [state |-> "done", result |-> Some(risks),
                         exception |-> None]]
    /\ log' = log \o <<Entry("INFO", "Running Agent 2"),
                       Entry("DEBUG", "Agent 2 identified risk items")>>
    /\ spans' = Append(spans, Span("agent2_risk", "risk_assessor"))
    /\ ready' = Tail(ready) \o <<"agent2_done">>
    /\ UNCHANGED <<workflow_text, tool_call, workflows, reply, FrontendVars>>
    /\ UNCHANGED <<pc, gather, outcome, counters>>

Agent2Failure ==
    /\ NextReady("agent2_task")
    /\ observed' = [observed EXCEPT !["agent2"] = <<Agent2Reads(session)>>]
    /\ \E kind \in FailureKinds :
        /\ session' = [session EXCEPT
                          !.agent2_latency = (kind = "json_decode")]
        /\ tasks' = [tasks EXCEPT !["agent2"] =
                        [state |-> OnAgentRaise("agent2", kind).state,
                         result |-> None,
                         exception |-> Some(Exc("agent2", kind))]]
        /\ ready' = Tail(ready) \o <<OnAgentRaise("agent2", kind).next>>
    /\ log' = log \o <<Entry("INFO", "Running Agent 2")>>
    /\ spans' = Append(spans, Span("agent2_risk", "risk_assessor"))
    /\ UNCHANGED <<workflow_text, tool_call, workflows, reply, FrontendVars>>
    /\ UNCHANGED <<pc, gather, outcome, counters>>

Agent3Success ==
    /\ NextReady("agent3_task")
    /\ observed' = [observed EXCEPT !["agent3"] = <<Agent3Reads(session)>>]
    /\ \E automation \in AutoOutputs :
        /\ session' = Agent3SessionEffect(session, automation)
        /\ tasks' = [tasks EXCEPT !["agent3"] =
                        [state |-> "done", result |-> Some(automation),
                         exception |-> None]]
    /\ log' = log \o <<Entry("INFO", "Running Agent 3"),
                       Entry("DEBUG", "Agent 3 determined agent types")>>
    /\ spans' = Append(spans, Span("agent3_automation", "automation_analyzer"))
    /\ ready' = Tail(ready) \o <<"agent3_done">>
    /\ UNCHANGED <<workflow_text, tool_call, workflows, reply, FrontendVars>>
    /\ UNCHANGED <<pc, gather, outcome, counters>>

Agent3Failure ==
    /\ NextReady("agent3_task")
    /\ observed' = [observed EXCEPT !["agent3"] = <<Agent3Reads(session)>>]
    /\ \E kind \in FailureKinds :
        /\ session' = [session EXCEPT
                          !.agent3_latency = (kind = "json_decode")]
        /\ tasks' = [tasks EXCEPT !["agent3"] =
                        [state |-> OnAgentRaise("agent3", kind).state,
                         result |-> None,
                         exception |-> Some(Exc("agent3", kind))]]
        /\ ready' = Tail(ready) \o <<OnAgentRaise("agent3", kind).next>>
    /\ log' = log \o <<Entry("INFO", "Running Agent 3")>>
    /\ spans' = Append(spans, Span("agent3_automation", "automation_analyzer"))
    /\ UNCHANGED <<workflow_text, tool_call, workflows, reply, FrontendVars>>
    /\ UNCHANGED <<pc, gather, outcome, counters>>

---------------------------------------------------------------------------
(* asyncio.gather(agent2_task, agent3_task): the done callback of each     *)
(* task                                                                    *)

TaskOf(cb) == IF cb = "agent2_done" THEN "agent2" ELSE "agent3"

DoneCallbackNext ==
    /\ ready # <<>>
    /\ Head(ready) \in {"agent2_done", "agent3_done"}

\* the outer future is already done: nothing more to do
GatherCallbackIgnored ==
    /\ DoneCallbackNext
    /\ gather.state # "pending"
    /\ ready' = Tail(ready)
    /\ UNCHANGED <<workflow_text, tool_call, workflows, reply, FrontendVars>>
    /\ UNCHANGED <<pc, session, tasks, gather, outcome, log, spans, counters,
                   observed>>

\* return_exceptions is False: the first exception is set on the outer
\* future, the other task is left running
GatherCallbackException ==
    /\ DoneCallbackNext
    /\ gather.state = "pending"
    /\ tasks[TaskOf(Head(ready))].state = "failed"
    /\ gather' = [gather EXCEPT
                     !.state = "exception",
                     !.exception = tasks[TaskOf(Head(ready))].exception]
    /\ ready' = Tail(ready) \o <<"main">>
    /\ UNCHANGED <<workflow_text, tool_call, workflows, reply, FrontendVars>>
    /\ UNCHANGED <<pc, session, tasks, outcome, log, spans, counters, observed>>

\* the results are listed in the order of the arguments of gather
GatherResults(tks) == <<Get(tks["agent2"].result), Get(tks["agent3"].result)>>

GatherCallbackResult ==
    /\ DoneCallbackNext
    /\ gather.state = "pending"
    /\ tasks[TaskOf(Head(ready))].state = "done"
    /\ IF gather.nfinished + 1 = 2
       THEN /\ gather' = [gather EXCEPT !.state = "result",
                                        !.nfinished = @ + 1,
                                        !.results = GatherResults(tasks)]
            /\ ready' = Tail(ready) \o <<"main">>
       ELSE /\ gather' = [gather EXCEPT !.nfinished = @ + 1]
            /\ ready' = Tail(ready)
    /\ UNCHANGED <<workflow_text, tool_call, workflows, reply, FrontendVars>>
    /\ UNCHANGED <<pc, session, tasks, outcome, log, spans, counters, observed>>

---------------------------------------------------------------------------
(* analyze_workflow, after the await *)

\* risks, automation = await asyncio.gather(agent2_task, agent3_task)
Unpack(results) == [risks |-> results[1], automation |-> results[2]]

JoinSuccess ==
    /\ pc = "await"
    /\ NextReady("main")
    /\ gather.state = "result"
    /\ session' = [session EXCEPT
                      !.risks = Some(Unpack(gather.results).risks),
                      !.automation = Some(Unpack(gather.results).automation)]
    /\ log' = log \o <<Entry("INFO", "Both Agent 2 & 3 completed")>>
    /\ ready' = Tail(ready)
    /\ pc' = "summarize"
    /\ UNCHANGED <<workflow_text, tool_call, workflows, reply, FrontendVars>>
    /\ UNCHANGED <<tasks, gather, outcome, spans, counters, observed>>

JoinFailure ==
    /\ pc = "await"
    /\ NextReady("main")
    /\ gather.state = "exception"
    /\ Raised(Get(gather.exception), log)
    /\ ready' = Tail(ready)
    /\ pc' = "raised"
    /\ UNCHANGED <<workflow_text, tool_call, workflows, reply, FrontendVars>>
    /\ UNCHANGED <<session, tasks, gather, spans, observed>>

---------------------------------------------------------------------------
(* Agent 4, the automation summarizer, called after agents 2 and 3         *)

\* what a failing summarize does: "json_decode" and "exception" are caught
\* and logged inside summarize, "no_parsed_steps" is its check of the
\* session before the model call
SummarizerFailureKinds == {"json_decode", "exception"}

\* a summarizer whose failure is raised to analyze_workflow
OnSummarizerFailureRaise == "raised"

\* summarize returns an empty dict on failure and the pipeline goes on
OnSummarizerFailure == "merge"

Agent4Success ==
    /\ pc = "summarize"
    /\ Len(Get(session.parsed_steps)) > 0
    /\ session' = [session EXCEPT !.automation_summary = Some("summary"),
                                  !.agent4_latency = TRUE]
    /\ log' = log \o <<Entry("INFO", "Agent 4 summary generated")>>
    /\ spans' = Append(spans, Span("agent4_summarize", "automation_summarizer"))
    /\ pc' = "merge"
    /\ UNCHANGED <<workflow_text, tool_call, workflows, reply, FrontendVars>>
    /\ UNCHANGED <<tasks, gather, ready, outcome, counters, observed>>

Agent4Failure ==
    /\ pc = "summarize"
    /\ \/ /\ Len(Get(session.parsed_steps)) = 0
          /\ log' = log \o <<Entry("WARNING", "no_parsed_steps")>>
       \/ /\ Len(Get(session.parsed_steps)) > 0
          /\ \E kind \in SummarizerFailureKinds :
                log' = log \o <<Entry("ERROR", kind)>>
    /\ spans' = Append(spans, Span("agent4_summarize", "automation_summarizer"))
    /\ pc' = OnSummarizerFailure
    /\ UNCHANGED <<workflow_text, tool_call, workflows, reply, FrontendVars>>
    /\ UNCHANGED <<session, tasks, gather, ready, outcome, counters, observed>>

---------------------------------------------------------------------------
\* a merge that does not wait for the gather
CanMergeEarly == pc \in {"await", "merge"}

\* the merge block follows the await
CanMerge == pc = "merge"

Merge ==
    /\ CanMerge
    /\ spans' = Append(spans, Span("merge_results", "result_merger"))
    /\ IF MergeRaises(session)
       THEN /\ Raised(Exc("merge", "TypeError"),
                      log \o <<Entry("INFO", "Merging results")>>)
            /\ pc' = "raised"
            /\ UNCHANGED session
       ELSE /\ session' = [session EXCEPT
                              !.final_analysis = Some(MergeResults(session))]
            /\ log' = log \o <<Entry("INFO", "Merging results"),
                               Entry("INFO", "Analysis complete")>>
            /\ pc' = "metrics"
            /\ UNCHANGED <<outcome, counters>>
    /\ UNCHANGED <<workflow_text, tool_call, workflows, reply, FrontendVars>>
    /\ UNCHANGED <<tasks, gather, ready, observed>>

\* metrics.record_analysis(session); return final_analysis
RecordAndReturn ==
    /\ pc = "metrics"
    /\ counters' = [counters EXCEPT !.analyses_total = @ + 1]
    /\ log' = log \o <<Entry("INFO", "Workflow analysis succeeded")>>
    /\ outcome' = [kind |-> "returned", value |-> session.final_analysis,
                   exception |-> None]
    /\ pc' = "returned"
    /\ UNCHANGED <<workflow_text, tool_call, workflows, reply, FrontendVars>>
    /\ UNCHANGED <<session, tasks, gather, ready, spans, observed>>

Next ==
    \/ AnalyzeStart
    \/ Agent1Success
    \/ Agent1Failure
    \/ LaunchTasks
    \/ Agent2Success
    \/ Agent2Failure
    \/ Agent3Success
    \/ Agent3Failure
    \/ GatherCallbackIgnored
    \/ GatherCallbackException
    \/ GatherCallbackResult
    \/ JoinSuccess
    \/ JoinFailure
    \/ Agent4Success
    \/ Agent4Failure
    \/ Merge
    \/ RecordAndReturn

Spec == Init /\ [][Next]_vars

InputSpec == InitAnyText /\ [][Next]_vars

---------------------------------------------------------------------------
(* Several runs on one orchestrator.  Each call of analyze_workflow has    *)
(* its own session (a local variable) and its own trace id, under which    *)
(* its spans and log lines are kept; what the runs share is the            *)
(* MetricsCollector of the orchestrator.  Another run is seen here by what *)
(* it does to those counters when it ends.  Its steps come between the     *)
(* callbacks of the event loop: before this run starts, while this run     *)
(* awaits the gather, or after it has ended.                               *)

OtherRunsEnded ==
    counters.analyses_total + counters.errors_total
        - (IF pc \in {"returned", "raised"} THEN 1 ELSE 0)

\* metrics.record_analysis / metrics.record_error of another run
OtherRunRecords ==
    /\ pc \in {"start", "await", "returned", "raised"}
    /\ OtherRunsEnded < MaxOtherRuns
    /\ \/ counters' = [counters EXCEPT !.analyses_total = @ + 1]
       \/ counters' = [counters EXCEPT !.errors_total = @ + 1]
    /\ UNCHANGED <<pc, session, tasks, gather, ready, outcome, log, spans,
                   observed, workflow_text, tool_call, workflows, reply,
                   FrontendVars>>

NextMultiRun ==
    \/ Next
    \/ OtherRunRecords

MultiRunSpec == Init /\ [][NextMultiRun]_vars

\* the same run, with a parser that returns steps with dependencies
NextAnyDeps ==
    \/ AnalyzeStart
    \/ Agent1SuccessAnyDeps
    \/ Agent1Failure
    \/ LaunchTasks
    \/ Agent2Success
    \/ Agent2Failure
    \/ Agent3Success
    \/ Agent3Failure
    \/ GatherCallbackIgnored
    \/ GatherCallbackException
    \/ GatherCallbackResult
    \/ JoinSuccess
    \/ JoinFailure
    \/ Agent4Success
    \/ Agent4Failure
    \/ Merge
    \/ RecordAndReturn

DepSpec == Init /\ [][NextAnyDeps]_vars

---------------------------------------------------------------------------
(* Derived notions used by the properties *)

AgentTasks == {"agent2", "agent3"}

HasSpan(span_id) == \E i \in 1..Len(spans) : spans[i].span_id = span_id

\* the parser block was left, by return or by exception
ParserCompleted == HasSpan("agent1_parse")

ParserFailed ==
    /\ IsSome(outcome.exception)
    /\ Get(outcome.exception).stage = "agent1"

AgentBegun(t) == tasks[t].state # "none" \/ observed[t] # <<>>

AgentFinished(t) == tasks[t].state \in {"done", "failed"}

MergeBegun == pc \in {"merge", "metrics", "returned"} \/ HasSpan("merge_results")

RunEnded == pc \in {"returned", "raised"}

\* the run status of the orchestrator state machine, read off the position
\* of analyze_workflow
Status ==
    CASE pc = "start" -> "INITIATED"
      [] pc = "agent1" -> "PARSING"
      [] pc = "launch" -> "PARSED"
      [] pc = "await" -> "ANALYZING"
      [] pc = "summarize" -> "ANALYSIS_COMPLETE"
      [] pc = "merge" -> "ANALYSIS_COMPLETE"
      [] pc = "metrics" -> "MERGED"
      [] pc = "returned" -> "DONE"
      [] pc = "raised" -> IF ParserFailed THEN "PARSE_FAILED" ELSE "ABORTED"

ParsedIds(parsed) == {parsed[i].step_id : i \in 1..Len(parsed)}

\* the field of the session that holds the output of an agent task
OutputField(t) == IF t = "agent2" THEN session.risks ELSE session.automation

---------------------------------------------------------------------------
(* C1: neither agent 2 nor agent 3 is created or begins before the parser  *)
(* block was left; as they only begin when it was left by return, the      *)
(* parsed steps are in the session by then.                                *)
C1_ParserBarrier ==
    \A t \in AgentTasks :
        AgentBegun(t) =>
            /\ ParserCompleted
            /\ pc # "agent1"
            /\ IsSome(session.parsed_steps)

C1_Witness ==
    /\ observed["agent2"] # <<>>
    /\ observed["agent3"] # <<>>
    /\ ParserCompleted

(* C2: once the parser succeeded, a run in which agent 2 or agent 3 failed *)
(* does not end by raising: it ends by returning an analysis.              *)
C2_AgentFailureDoesNotAbort ==
    (/\ IsSome(session.parsed_steps)
     /\ \E t \in AgentTasks : tasks[t].state = "failed"
     /\ RunEnded)
        => (/\ pc = "returned"
            /\ outcome.kind = "returned"
            /\ IsSome(outcome.value))

(* C3: the merge does not begin before both agent tasks have finished.     *)
C3_JoinBeforeMerge ==
    MergeBegun => \A t \in AgentTasks : AgentFinished(t)

C3_Witness ==
    /\ HasSpan("merge_results")
    /\ \A t \in AgentTasks : AgentFinished(t)
    /\ IsSome(session.final_analysis)

(* C4: when the parser fails (an API error, a timeout, an undecodable      *)
(* answer) the run is PARSE_FAILED: no agent task is created or run, no    *)
(* merge is begun, no analysis is stored or returned, and the caller gets  *)
(* the parser's exception.                                                 *)
C4_ParserFailureAborts ==
    ParserFailed =>
        /\ Status = "PARSE_FAILED"
        /\ \A t \in AgentTasks : ~AgentBegun(t)
        /\ ~MergeBegun
        /\ session.final_analysis = None
        /\ outcome.kind = "raised"
        /\ outcome.value = None

C4_Witness ==
    /\ ParserFailed
    /\ pc = "raised"
    /\ Get(outcome.exception).kind = "timeout"
    /\ counters.errors_total = 1

(* C5: when one of the two agents timed out and its sibling completed,     *)
(* the run returns a report and the sibling's result is the one stored in  *)
(* the session and merged.                                                 *)
C5_SiblingResultPreserved ==
    \A t, u \in AgentTasks :
        (/\ t # u
         /\ tasks[t].state = "failed"
         /\ Get(tasks[t].exception).kind = "timeout"
         /\ tasks[u].state = "done"
         /\ RunEnded)
            => (/\ pc = "returned"
                /\ OutputField(u) = tasks[u].result
                /\ IsSome(session.final_analysis))

C9_RealRiskViewKept ==
    IsSome(session.final_analysis) =>
        LET steps == Get(session.final_analysis).steps
        IN  \A i \in 1..Len(steps) :
                LET rv == FirstMatch(Get(session.risks), steps[i].step_id)
                IN  IF rv = None
                    THEN /\ steps[i].risk_level = "LOW"
                         /\ steps[i].requires_hitl = FALSE
                    ELSE /\ steps[i].risk_level = Get(rv).risk_level
                         /\ steps[i].requires_hitl = Get(rv).requires_hitl

(* C10: in a stored analysis where exactly one parsed step has no          *)
(* automation data, that step is merged with agent_type adk_base and both  *)
(* scores 0.5, and every other merged step is what it would be had the     *)
(* agent returned data for that step too.                                  *)
C10_OnlyFailedStepFallsBack ==
    IsSome(session.final_analysis) =>
        LET steps == Get(session.final_analysis).steps
            parsed == Get(session.parsed_steps)
            risks == Get(session.risks)
            automation == Get(session.automation)
            missing == {i \in 1..Len(parsed) :
                           FirstMatch(automation, parsed[i].step_id) = None}
        IN  Cardinality(missing) = 1 =>
                \A k \in missing :
                    /\ steps[k].step_id = parsed[k].step_id
                    /\ steps[k].agent_type = "adk_base"
                    /\ steps[k].determinism_score = 50
                    /\ steps[k].automation_feasibility = 50
                    /\ \A i \in 1..Len(parsed) : \A v \in AutoViews :
                          (i # k /\ v.step_id = parsed[k].step_id) =>
                              steps[i] = MergeStep(parsed[i], risks,
                                                   Append(automation, v))

C10_Witness ==
    /\ IsSome(session.final_analysis)
    /\ LET parsed == Get(session.parsed_steps)
           automation == Get(session.automation)
       IN  /\ Len(parsed) >= 2
           /\ Cardinality({i \in 1..Len(parsed) :
                  FirstMatch(automation, parsed[i].step_id) = None}) = 1
           /\ \E i \in 1..Len(parsed) :
                  /\ FirstMatch(automation, parsed[i].step_id) # None
                  /\ Get(session.final_analysis).steps[i].agent_type = "HUMAN"

---------------------------------------------------------------------------
\* an entry of session.errors (the error log of the run) names the stage
\* that failed
ErrorLogged(t) ==
    \E i \in 1..Len(session.errors) : session.errors[i].stage = t

(* C11: when the run has ended, every agent task that failed (by an error  *)
(* or a timeout of its model call) has an entry in session.errors.         *)
C11_AgentFailureInErrorLog ==
    RunEnded =>
        \A t \in AgentTasks : tasks[t].state = "failed" => ErrorLogged(t)

---------------------------------------------------------------------------
\* the analysis that _merge_results stored in the session
HasAnalysis == IsSome(session.final_analysis)

StoredSummary == Get(session.final_analysis).summary

(* C13 as stated: in every stored analysis automation_potential is the     *)
(* quotient automatable_count / total_steps, which needs total_steps to be *)
(* other than zero, and lies between 0 and 1.                              *)
C13_PotentialIsRatio ==
    HasAnalysis =>
        LET s == StoredSummary
            q == s.automation_potential
        IN  /\ s.total_steps # 0
            /\ q.den > 0
            /\ q.num * s.total_steps = s.automatable_count * q.den
            /\ 0 <= q.num /\ q.num <= q.den

(* C13: in every stored analysis with at least one step                    *)
(* automation_potential is the quotient automatable_count / total_steps;   *)
(* in one without steps it is 0; in both it lies between 0 and 1.          *)
C13_PotentialIsRatioOrZero ==
    HasAnalysis =>
        LET s == StoredSummary
            q == s.automation_potential
        IN  /\ q.den > 0
            /\ s.total_steps # 0 =>
                   q.num * s.total_steps = s.automatable_count * q.den
            /\ s.total_steps = 0 => q.num = 0
            /\ 0 <= q.num /\ q.num <= q.den

C13_Witness ==
    /\ HasAnalysis
    /\ StoredSummary.total_steps = 2
    /\ StoredSummary.automatable_count = 1
    /\ StoredSummary.agent_required_count = 2

---------------------------------------------------------------------------
StoredSteps == Get(session.final_analysis).steps

---------------------------------------------------------------------------
ViewIdsOf(views) == {views[i].step_id : i \in 1..Len(views)}

\* the inputs of the merge are in the session and a risk or automation item
\* names a step id that no parsed step has
OrphanedView ==
    /\ IsSome(session.parsed_steps)
    /\ IsSome(session.risks)
    /\ IsSome(session.automation)
    /\ \/ ViewIdsOf(Get(session.risks))
             \ ParsedIds(Get(session.parsed_steps)) # {}
       \/ ViewIdsOf(Get(session.automation))
             \ ParsedIds(Get(session.parsed_steps)) # {}

(* C15: when the inputs of the merge hold an item for a step id absent     *)
(* from the parsed steps, no analysis is stored or returned: the run ends  *)
(* by raising.                                                             *)
C15_InconsistentInputsAbort ==
    OrphanedView =>
        /\ ~HasAnalysis
        /\ outcome.kind # "returned"
        /\ pc \in {"summarize", "merge", "raised"}

---------------------------------------------------------------------------
(* C16: every change of the run status is a transition of the state        *)
(* machine INITIATED -> PARSING -> {PARSE_FAILED | PARSED} -> ANALYZING    *)
(* -> {ANALYSIS_COMPLETE | ANALYSIS_PARTIAL} -> MERGED ->                  *)
(* {SUMMARIZED | DONE}; PARSE_FAILED is left by no transition.             *)
C16_StatusMachine ==
    [][Status' # Status =>
          <<Status, Status'>> \in
              {<<"INITIATED", "PARSING">>,
               <<"PARSING", "PARSE_FAILED">>,
               <<"PARSING", "PARSED">>,
               <<"PARSED", "ANALYZING">>,
               <<"ANALYZING", "ANALYSIS_COMPLETE">>,
               <<"ANALYZING", "ANALYSIS_PARTIAL">>,
               <<"ANALYSIS_COMPLETE", "MERGED">>,
               <<"ANALYSIS_PARTIAL", "MERGED">>,
               <<"MERGED", "SUMMARIZED">>,
               <<"MERGED", "DONE">>}]_vars

---------------------------------------------------------------------------
(* C17: when the run leaves ANALYZING (the join), it enters                *)
(* ANALYSIS_COMPLETE if both agent tasks succeeded and ANALYSIS_PARTIAL in *)
(* every other case.                                                       *)
C17_JoinOutcome ==
    [][(Status = "ANALYZING" /\ Status' # "ANALYZING") =>
          IF \A t \in AgentTasks : tasks[t].state = "done"
          THEN Status' = "ANALYSIS_COMPLETE"
          ELSE Status' = "ANALYSIS_PARTIAL"]_vars

---------------------------------------------------------------------------
\* the spans of the stages of a run
StageSpans ==
    {"agent1_parse", "agent2_risk", "agent3_automation", "agent4_summarize",
     "merge_results"}

\* the exception that the stage traced under span_id last raised, if any
LastFailureOf(span_id) ==
    CASE span_id = "agent2_risk" -> tasks["agent2"].exception
      [] span_id = "agent3_automation" -> tasks["agent3"].exception
      [] OTHER -> outcome.exception

---------------------------------------------------------------------------
(* Progress.  The steps of analyze_workflow itself and of the event loop   *)
(* are taken whenever they can be.  The return of an agent's model call    *)
(* (client.models.generate_content, called without a timeout) is up to the *)
(* collaborator: nothing in the code makes it happen.                      *)
OrchestratorStep ==
    \/ AnalyzeStart
    \/ LaunchTasks
    \/ GatherCallbackIgnored
    \/ GatherCallbackException
    \/ GatherCallbackResult
    \/ JoinSuccess
    \/ JoinFailure
    \/ Merge
    \/ RecordAndReturn

FairSpec == Spec /\ WF_vars(OrchestratorStep)

(* C20: every run eventually ends, by returning its report or by raising,  *)
(* also when the model call of a stage never returns.                      *)
C20_RunTerminates == <>RunEnded

---------------------------------------------------------------------------
\* summarize was called and gave no summary
SummarizerFailed ==
    /\ HasSpan("agent4_summarize")
    /\ session.automation_summary = None

(* C21: a failure of the summarizer does not end the run: the run goes on  *)
(* to the merge, and the analysis it returns has the merged steps and the  *)
(* summary counts of its inputs, only without the summarizer's text.       *)
C21_SummarizerFailureNotFatal ==
    SummarizerFailed =>
        /\ pc \in {"merge", "metrics", "returned"}
        /\ pc = "returned" =>
              /\ outcome.kind = "returned"
              /\ IsSome(outcome.value)
              /\ Get(outcome.value).automation_summary = None
              /\ Get(outcome.value).steps =
                     [i \in 1..Len(Get(session.parsed_steps)) |->
                         MergeStep(Get(session.parsed_steps)[i],
                                   Get(session.risks),
                                   Get(session.automation))]
              /\ Get(outcome.value).summary.total_steps =
                     Len(Get(session.parsed_steps))

C21_Witness ==
    /\ SummarizerFailed
    /\ pc = "returned"
    /\ Len(Get(outcome.value).steps) > 0

---------------------------------------------------------------------------
TextOutOfBounds ==
    \/ workflow_text < MIN_WORKFLOW_LENGTH
    \/ workflow_text > MAX_WORKFLOW_LENGTH

(* C22: on a workflow text shorter than MIN_WORKFLOW_LENGTH or longer than *)
(* MAX_WORKFLOW_LENGTH the parser is never invoked: the run ends by        *)
(* raising a validation error before the parser block.                     *)
C22_TextLengthValidated ==
    TextOutOfBounds =>
        /\ ~HasSpan("agent1_parse")
        /\ RunEnded =>
               /\ IsSome(outcome.exception)
               /\ Get(outcome.exception).stage = "validation"

---------------------------------------------------------------------------
\* the pairs <<a, b>> where step a lists b among its dependencies
DependsOn(parsed) ==
    UNION {{<<parsed[i].step_id, d>> : d \in parsed[i].dependencies} :
              i \in 1..Len(parsed)}

\* the pairs joined by a chain of at most n + 1 dependencies
RECURSIVE Chains(_, _)
Chains(R, n) ==
    IF n = 0 THEN R
    ELSE LET S == Chains(R, n - 1)
         IN  S \cup {p \in ViewIds \X ViewIds :
                        \E b \in ViewIds : <<p[1], b>> \in S /\ <<b, p[2]>> \in R}

(* C23: the parsed steps that a run has accepted, merging them into its    *)
(* analysis, form a directed acyclic graph under their dependencies, and   *)
(* every dependency is the id of a parsed step.                            *)
C23_DependenciesFormDag ==
    HasAnalysis =>
        LET parsed == Get(session.parsed_steps)
            R == DependsOn(parsed)
        IN  /\ \A p \in R : p[2] \in ParsedIds(parsed)
            /\ \A a \in ViewIds : <<a, a>> \notin Chains(R, MaxSteps + 1)

---------------------------------------------------------------------------
\* get_analysis_metrics: the summary of the orchestrator's MetricsCollector
GetAnalysisMetrics == counters

(* C24: with other runs executing on the same orchestrator, the analysis   *)
(* that a run returns is the merge of its own session, and the metrics     *)
(* read when it has ended count this run only: one analysis if it          *)
(* returned, one error if it raised.                                       *)
C24_RunsDoNotInterfere ==
    RunEnded =>
        /\ pc = "returned" =>
              /\ outcome.value = session.final_analysis
              /\ Get(outcome.value).steps =
                     [i \in 1..Len(Get(session.parsed_steps)) |->
                         MergeStep(Get(session.parsed_steps)[i],
                                   Get(session.risks),
                                   Get(session.automation))]
        /\ GetAnalysisMetrics =
               [analyses_total |-> IF pc = "returned" THEN 1 ELSE 0,
                errors_total |-> IF pc = "raised" THEN 1 ELSE 0]

---------------------------------------------------------------------------
\* the span of an agent task was closed: the block of its coroutine was left
AgentEnded(t) == HasSpan(SpanOf(t))

(* C25: the execution intervals of agent 2 and agent 3 overlap: when one   *)
(* of them begins, the span of the other has not been closed yet.          *)
C25_AgentSpansOverlap ==
    [][\A t \in AgentTasks :
          (observed[t] = <<>> /\ observed'[t] # <<>>) =>
              \A u \in AgentTasks \ {t} : ~AgentEnded(u)]_vars

\* ---------------------------------------------------------------------------
\* Custom tools: lookup_api_docs and get_compliance_rules
\* ---------------------------------------------------------------------------

\* The words a step description may contain; a description is modelled by the
\* set of these words that occur in it (the empty set is the empty string).
Words == {"email", "database", "review", "approve", "fetch", "file", "other"}

Descriptions == SUBSET Words

\* api_db of lookup_api_docs, in insertion order; determinism in hundredths.
api_db ==
    << [key |-> "email",
        value |-> [api_exists |-> TRUE, api_name |-> Some("Gmail API"),
                   determinism |-> 100]],
       [key |-> "database",
        value |-> [api_exists |-> TRUE, api_name |-> Some("SQL API"),
                   determinism |-> 100]],
       [key |-> "review",
        value |-> [api_exists |-> FALSE, api_name |-> None,
                   determinism |-> 20]],
       [key |-> "approve",
        value |-> [api_exists |-> FALSE, api_name |-> None,
                   determinism |-> 30]] >>

ApiKeys == {api_db[i].key : i \in DOMAIN api_db}

\* The result of a lookup that matches no keyword: "No specific API found".
NoApiFound ==
    [api_exists |-> FALSE, api_name |-> None, determinism |-> 20,
     notes |-> "No specific API found"]

ApiMatches(description) == {i \in DOMAIN api_db : api_db[i].key \in description}

Returned(value) == [kind |-> "returned", value |-> value]

ToolRaised == [kind |-> "raised"]

ApiEntry(i) ==
    [api_exists |-> api_db[i].value.api_exists,
     api_name |-> api_db[i].value.api_name,
     determinism |-> api_db[i].value.determinism,
     notes |-> api_db[i].key]

FirstApiMatch(description) ==
    CHOOSE i \in ApiMatches(description) :
        \A j \in ApiMatches(description) : i <= j

\* A lookup that indexes api_db and has no default: a miss raises KeyError.
LookupApiDocsNoDefault(description) ==
    IF ApiMatches(description) = {}
    THEN ToolRaised
    ELSE Returned(ApiEntry(FirstApiMatch(description)))

\* lookup_api_docs(step_description): keyword matching, default on a miss.
LookupApiDocs(description) ==
    IF ApiMatches(description) = {}
    THEN Returned(NoApiFound)
    ELSE Returned(ApiEntry(FirstApiMatch(description)))

Domains == {"financial", "healthcare", "general", "other"}

RiskInputs == RISK_LEVELS \cup {"INVALID"}

Rules(applicable_rules, requires_audit, hitl_required) ==
    [applicable_rules |-> applicable_rules, requires_audit |-> requires_audit,
     hitl_required |-> hitl_required]

\* compliance_db of get_compliance_rules, keyed by <<risk_level, domain>>.
compliance_db ==
    (<<"CRITICAL", "financial">> :> Rules({"SOX", "PCI-DSS"}, TRUE, TRUE)) @@
    (<<"CRITICAL", "healthcare">> :> Rules({"HIPAA", "HITECH"}, TRUE, TRUE)) @@
    (<<"HIGH", "financial">> :> Rules({"PCI-DSS"}, TRUE, FALSE)) @@
    (<<"HIGH", "healthcare">> :> Rules({"HIPAA"}, FALSE, TRUE)) @@
    (<<"MEDIUM", "general">> :> Rules({}, FALSE, FALSE)) @@
    (<<"LOW", "general">> :> Rules({}, FALSE, FALSE)) @@
    (<<"CRITICAL", "*">> :> Rules({}, TRUE, TRUE))

NoComplianceRules == Rules({}, FALSE, FALSE)

ComplianceKey(risk_level, domain) ==
    IF <<risk_level, domain>> \in DOMAIN compliance_db
    THEN Some(<<risk_level, domain>>)
    ELSE IF <<risk_level, "*">> \in DOMAIN compliance_db
         THEN Some(<<risk_level, "*">>)
         ELSE None

\* get_compliance_rules(risk_level, domain): table lookup, default on a miss.
GetComplianceRules(risk_level, domain) ==
    IF IsSome(ComplianceKey(risk_level, domain))
    THEN Returned(compliance_db[ComplianceKey(risk_level, domain)[1]])
    ELSE Returned(NoComplianceRules)

\* Error handling strategy: "Tool call failures -> Log error, return fallback
\* value, continue".
OnToolFailure == "continue"

ToolFallback(tool) ==
    IF tool = "lookup_api_docs" THEN NoApiFound ELSE NoComplianceRules

ToolCall(tool, input, result) ==
    Some([tool |-> tool, input |-> input, outcome |-> result,
          used |-> IF result.kind = "raised" THEN ToolFallback(tool)
                   ELSE result.value,
          stage |-> IF result.kind = "raised" THEN OnToolFailure
                    ELSE "continue"])

\* An agent calls lookup_api_docs on a step description.
CallLookupApiDocs ==
    /\ \E description \in Descriptions :
          tool_call' = ToolCall("lookup_api_docs", description,
                                LookupApiDocs(description))
    /\ UNCHANGED <<pc, session, tasks, gather, ready, outcome, log, spans,
                   counters, observed, workflow_text, workflows, reply,
                   FrontendVars>>

\* An agent calls get_compliance_rules on a risk level and a domain.
CallGetComplianceRules ==
    /\ \E risk_level \in RiskInputs, domain \in Domains :
          tool_call' = ToolCall("get_compliance_rules", <<risk_level, domain>>,
                                GetComplianceRules(risk_level, domain))
    /\ UNCHANGED <<pc, session, tasks, gather, ready, outcome, log, spans,
                   counters, observed, workflow_text, workflows, reply,
                   FrontendVars>>

NextTool == CallLookupApiDocs \/ CallGetComplianceRules

ToolSpec == Init /\ [][NextTool]_vars

LastCall == tool_call[1]

ToolMiss ==
    /\ IsSome(tool_call)
    /\ \/ /\ LastCall.tool = "lookup_api_docs"
          /\ LastCall.input \cap ApiKeys = {}
       \/ /\ LastCall.tool = "get_compliance_rules"
          /\ LastCall.input[1] # "CRITICAL"
          /\ LastCall.input \notin DOMAIN compliance_db

----------------------------------------------------------------------------
\* the ERROR lines of the run's log
ErrorEntries == {i \in 1..Len(log) : log[i].level = "ERROR"}

\* the summarizer caught and logged an error of its model call
SummarizerErrors ==
    {i \in ErrorEntries : log[i].msg \in SummarizerFailureKinds}

MergeFailed ==
    /\ IsSome(outcome.exception)
    /\ Get(outcome.exception).stage = "merge"

\* the errors that occurred in the run: a failed parser, each failed agent
\* task, each error caught by the summarizer, a failed merge
ErrorsOccurred ==
    Cardinality({t \in AgentTasks : tasks[t].state = "failed"})
        + Cardinality(SummarizerErrors)
        + (IF ParserFailed THEN 1 ELSE 0)
        + (IF MergeFailed THEN 1 ELSE 0)

(* C27: when the run has ended, every error that occurred in it, fatal or  *)
(* recovered, has its ERROR line in the log and was counted once in the    *)
(* error counter of the metrics.                                           *)
C27_EveryErrorLoggedAndCounted ==
    RunEnded =>
        /\ Cardinality(ErrorEntries) = ErrorsOccurred
        /\ counters.errors_total = ErrorsOccurred

\* ---------------------------------------------------------------------------
\* WorkflowRepository (Firestore) and the approval gate of org design
\* ---------------------------------------------------------------------------

ApprovalStatuses == {"PENDING", "APPROVED", "REJECTED"}

Exists(workflow_id) == IsSome(workflows[workflow_id])

Doc(workflow_id) == Get(workflows[workflow_id])

\* WorkflowRepository.get_approval_status: None if the document is missing
GetApprovalStatus(workflow_id) ==
    IF Exists(workflow_id) THEN Some(Doc(workflow_id).approvalStatus) ELSE None

\* the fields save_workflow_analysis sets; the registries are not among
\* them and keep the value they have in an existing document
SavedDocument(workflow_id) ==
    [analysis |-> workflow_id,
     approvalStatus |-> "PENDING",
     approvedBy |-> None,
     orgChart |-> None,
     agentRegistry |-> IF Exists(workflow_id)
                       THEN Doc(workflow_id).agentRegistry ELSE None,
     toolRegistry |-> IF Exists(workflow_id)
                      THEN Doc(workflow_id).toolRegistry ELSE None]

Reply(op, workflow_id, kind, exception, synthesis) ==
    Some([op |-> op, workflow_id |-> workflow_id, kind |-> kind,
          exception |-> exception, synthesis |-> synthesis])

PipelineVars ==
    <<pc, session, tasks, gather, ready, outcome, log, spans, counters,
      observed, workflow_text, tool_call>>

\* WorkflowRepository.save_workflow_analysis, called when an analysis is done
SaveWorkflowAnalysis ==
    /\ \E w \in WorkflowIds :
        /\ workflows' = [workflows EXCEPT ![w] = Some(SavedDocument(w))]
        /\ reply' = Reply("save_workflow_analysis", w, "returned", None, "none")
    /\ UNCHANGED <<PipelineVars, FrontendVars>>

\* a save_org_chart that writes the org chart and no registry
SaveOrgChartOnly(doc, workflow_id) ==
    [doc EXCEPT !.orgChart = Some(workflow_id)]

\* WorkflowRepository.save_org_chart: one update of the three fields
SaveOrgChart(doc, workflow_id) ==
    [doc EXCEPT !.orgChart = Some(workflow_id),
                !.agentRegistry = Some("agent_registry"),
                !.toolRegistry = Some("tool_registry")]

\* an org design that runs whatever the approval status
OrgDesignAllowedAlways(approval_status) == TRUE

\* the validation step at the start of run_org_design_for_analysis
OrgDesignAllowed(approval_status) == approval_status = Some("APPROVED")

\* the outcomes of the synthesis of the org chart
SynthesisOutcomes == {"ok", "failed"}

\* run_org_design_for_analysis(analysis, workflow_repository) on the
\* collection docs: the collection it leaves and how it ends
RunOrgDesign(docs, workflow_id, synthesis) ==
    LET status == IF IsSome(docs[workflow_id])
                  THEN Some(Get(docs[workflow_id]).approvalStatus) ELSE None
    IN  IF ~OrgDesignAllowed(status)
        THEN [docs |-> docs, kind |-> "raised",
              exception |-> Some("ApprovalRequiredException")]
        ELSE IF synthesis = "failed"
             THEN [docs |-> docs, kind |-> "raised",
                   exception |-> Some("SynthesisError")]
             ELSE IF IsSome(docs[workflow_id])
                  THEN [docs |-> [docs EXCEPT ![workflow_id] =
                                    Some(SaveOrgChart(Get(@), workflow_id))],
                        kind |-> "returned", exception |-> None]
                  ELSE [docs |-> docs, kind |-> "raised",
                        exception |-> Some("WorkflowNotFoundError")]

\* a direct call of run_org_design_for_analysis
RunOrgDesignForAnalysis ==
    /\ \E w \in WorkflowIds, synthesis \in SynthesisOutcomes :
        LET run == RunOrgDesign(workflows, w, synthesis)
        IN  /\ workflows' = run.docs
            /\ reply' = Reply("run_org_design_for_analysis", w, run.kind,
                              run.exception,
                              IF run.exception = Some("ApprovalRequiredException")
                              THEN "none" ELSE synthesis)
    /\ UNCHANGED <<PipelineVars, FrontendVars>>

\* an approve_workflow that approves a document in any status
CanApproveAnyStatus(approval_status) == TRUE

\* the precondition of approve_workflow on the status of the document
CanApprove(approval_status) == approval_status = "PENDING"

\* an approve_workflow that undoes the approval when the synthesis fails
OnSynthesisFailureRollBack == "rolled_back"

\* approve_workflow logs an error of the synthesis and keeps the approval
OnSynthesisFailure == "approved"

\* approve_workflow(workflow_id, approved_by) on the collection docs, with
\* the org design it triggers: the collection it leaves and how it ends
Approve(docs, w, approved_by, synthesis) ==
    IF ~IsSome(docs[w])
    THEN [docs |-> docs, kind |-> "raised",
          exception |-> Some("WorkflowNotFoundError"), synthesis |-> "none"]
    ELSE IF ~CanApprove(Get(docs[w]).approvalStatus)
         THEN [docs |-> docs, kind |-> "raised",
               exception |-> Some("InvalidApprovalStateError"),
               synthesis |-> "none"]
         ELSE LET approved ==
                      [docs EXCEPT ![w] =
                          Some([Get(@) EXCEPT
                                   !.approvalStatus = "APPROVED",
                                   !.approvedBy = Some(approved_by)])]
                  run == RunOrgDesign(approved, w, synthesis)
              IN  IF synthesis = "failed"
                     /\ OnSynthesisFailure = "rolled_back"
                  THEN [docs |-> docs, kind |-> "raised",
                        exception |-> run.exception, synthesis |-> synthesis]
                  ELSE [docs |-> run.docs, kind |-> "returned",
                        exception |-> None, synthesis |-> synthesis]

\* a call of WorkflowRepository.approve_workflow
ApproveWorkflow ==
    /\ \E w \in WorkflowIds, synthesis \in SynthesisOutcomes :
        LET done == Approve(workflows, w, "generic_user", synthesis)
        IN  /\ workflows' = done.docs
            /\ reply' = Reply("approve_workflow", w, done.kind,
                              done.exception, done.synthesis)
    /\ UNCHANGED <<PipelineVars, FrontendVars>>

\* WorkflowRepository.delete_workflow (hard delete)
DeleteWorkflow ==
    /\ \E w \in WorkflowIds :
        /\ workflows' = [workflows EXCEPT ![w] = None]
        /\ reply' = Reply("delete_workflow", w, "returned", None, "none")
    /\ UNCHANGED <<PipelineVars, FrontendVars>>

\* a client of the collection marks a pending workflow rejected (the rules
\* of the collection allow every write)
RejectWorkflow ==
    /\ \E w \in WorkflowIds :
        /\ Exists(w)
        /\ Doc(w).approvalStatus = "PENDING"
        /\ workflows' = [workflows EXCEPT ![w] =
                            Some([Get(@) EXCEPT !.approvalStatus = "REJECTED"])]
        /\ reply' = Reply("reject", w, "returned", None, "none")
    /\ UNCHANGED <<PipelineVars, FrontendVars>>

NextApproval ==
    \/ SaveWorkflowAnalysis
    \/ RunOrgDesignForAnalysis
    \/ ApproveWorkflow
    \/ DeleteWorkflow
    \/ RejectWorkflow

ApprovalSpec == Init /\ [][NextApproval]_vars

LastReply == Get(reply)

\* the org chart and the registries stored for a workflow
Synthesized(docs, workflow_id) ==
    IF IsSome(docs[workflow_id])
    THEN <<Get(docs[workflow_id]).orgChart,
           Get(docs[workflow_id]).agentRegistry,
           Get(docs[workflow_id]).toolRegistry>>
    ELSE <<None, None, None>>


(* C28: a step that writes an org chart or registries for a workflow       *)
(* leaves that workflow APPROVED, and a call of                            *)
(* run_org_design_for_analysis for a workflow whose status is not APPROVED *)
(* raises ApprovalRequiredException and changes no stored document.        *)
C28_OrgDesignOnlyWhenApproved ==
    [][/\ \A w \in WorkflowIds :
            (/\ IsSome(workflows'[w])
             /\ Synthesized(workflows', w) # Synthesized(workflows, w)
             /\ Synthesized(workflows', w)[1] # None)
                => Get(workflows'[w]).approvalStatus = "APPROVED"
       /\ (/\ IsSome(reply')
           /\ Get(reply').op = "run_org_design_for_analysis"
           /\ GetApprovalStatus(Get(reply').workflow_id) # Some("APPROVED"))
              => /\ Get(reply').exception = Some("ApprovalRequiredException")
                 /\ workflows' = workflows]_vars

C28_Witness ==
    /\ IsSome(reply)
    /\ LastReply.op = "run_org_design_for_analysis"
    /\ LastReply.exception = Some("ApprovalRequiredException")
    /\ GetApprovalStatus(LastReply.workflow_id) = Some("PENDING")
    /\ Synthesized(workflows, LastReply.workflow_id) = <<None, None, None>>


\* the approval status of a workflow in a collection, None if it is missing
ApprovalStatusIn(docs, workflow_id) ==
    IF IsSome(docs[workflow_id])
    THEN Some(Get(docs[workflow_id]).approvalStatus) ELSE None

(* C29: approve_workflow sets a status to APPROVED only for an existing    *)
(* document whose status is PENDING; for a missing document it raises      *)
(* WorkflowNotFoundError, for an approved or rejected one                  *)
(* InvalidApprovalStateError, and in both cases no document changes; no    *)
(* other operation makes a workflow APPROVED.                              *)
C29_ApproveOnlyPending ==
    [][/\ (IsSome(reply') /\ Get(reply').op = "approve_workflow") =>
            IF ~Exists(Get(reply').workflow_id)
            THEN /\ Get(reply').exception = Some("WorkflowNotFoundError")
                 /\ workflows' = workflows
            ELSE IF Doc(Get(reply').workflow_id).approvalStatus # "PENDING"
                 THEN /\ Get(reply').exception =
                            Some("InvalidApprovalStateError")
                      /\ workflows' = workflows
                 ELSE /\ Get(reply').kind = "returned"
                      /\ ApprovalStatusIn(workflows',
                                          Get(reply').workflow_id) =
                            Some("APPROVED")
       /\ \A w \in WorkflowIds :
            (/\ ApprovalStatusIn(workflows', w) = Some("APPROVED")
             /\ GetApprovalStatus(w) # Some("APPROVED"))
                => /\ Get(reply').op = "approve_workflow"
                   /\ Get(reply').workflow_id = w
                   /\ GetApprovalStatus(w) = Some("PENDING")]_vars

C29_Witness ==
    /\ IsSome(reply)
    /\ LastReply.op = "approve_workflow"
    /\ LastReply.exception = Some("InvalidApprovalStateError")
    /\ GetApprovalStatus(LastReply.workflow_id) = Some("REJECTED")


\* approve_workflow was the last call and it returned
ApproveReturned ==
    /\ IsSome(reply)
    /\ LastReply.op = "approve_workflow"
    /\ LastReply.kind = "returned"

AllSynthesized(workflow_id) ==
    \A i \in 1..3 : Synthesized(workflows, workflow_id)[i] # None

----------------------------------------------------------------------------
\* the synthesis triggered by the last approve_workflow failed
SynthesisFailedInApprove ==
    /\ IsSome(reply)
    /\ LastReply.op = "approve_workflow"
    /\ LastReply.synthesis = "failed"

----------------------------------------------------------------------------
\* the parser returned its steps and the two agent stages were started
StagesStarted == IsSome(session.parsed_steps) /\ ~ParserFailed

\* a field of the session holds a value that a stage wrote
Written(field) == IsSome(field)

(* C32: in every run, session.risks and session.automation are each        *)
(* written exactly once: a written field is never written again, and when  *)
(* a run whose stages were started has ended, both fields were written,    *)
(* also when a stage failed by a timeout.                                  *)
C32_ViewsWrittenExactlyOnce ==
    /\ [][/\ Written(session.risks) => session.risks' = session.risks
          /\ Written(session.automation) =>
                session.automation' = session.automation]_vars
    /\ [](RunEnded /\ StagesStarted =>
            Written(session.risks) /\ Written(session.automation))


----------------------------------------------------------------------------
(* C33: once the run has ended, by returning its analysis or by raising,   *)
(* no step changes the session or the returned analysis, whatever is still *)
(* on the ready queue of the event loop.                                   *)
C33_NoWriteAfterRunEnd ==
    [][RunEnded => (session' = session /\ outcome' = outcome)]_vars

\* the run was aborted by a timeout of agent 2, agent 3 was not cancelled
\* and completed, and nothing is left on the ready queue of the event loop
C33_Witness ==
    /\ pc = "raised"
    /\ tasks["agent2"].state = "failed"
    /\ Get(tasks["agent2"].exception).kind = "timeout"
    /\ tasks["agent3"].state = "done"
    /\ session.agent3_latency
    /\ ready = <<>>


----------------------------------------------------------------------------
(* C39: a stored workflow whose status is APPROVED keeps that status and   *)
(* its stored org chart in every later step in which it stays stored,      *)
(* also when an analysis is saved again under its workflow id.             *)
C39_ApprovedIsFinal ==
    [][\A w \in WorkflowIds :
          (/\ GetApprovalStatus(w) = Some("APPROVED")
           /\ IsSome(workflows'[w]))
             => /\ ApprovalStatusIn(workflows', w) = Some("APPROVED")
                /\ (Doc(w).orgChart # None =>
                       Get(workflows'[w]).orgChart = Doc(w).orgChart)]_vars


\* ---------------------------------------------------------------------------
\* The frontend: App.js, its handlers and fetchJsonWithRetry
\* ---------------------------------------------------------------------------

\* the retries option the handlers pass to fetchJsonWithRetry
retries == 1

\* a catch clause that retries after every error
ShouldRetryAnyError(err, attempt) == attempt < retries

\* const shouldRetry = isNetworkError && attempt < retries
ShouldRetry(err, attempt) == err = "TypeError" /\ attempt < retries

\* a document as save_workflow_analysis creates it
NewDocument(workflow_id) ==
    [analysis |-> workflow_id, approvalStatus |-> "PENDING",
     approvedBy |-> None, orgChart |-> None,
     agentRegistry |-> None, toolRegistry |-> None]

\* two analyses were saved
StoredPending == [w \in WorkflowIds |-> Some(NewDocument(w))]

\* the JSON body of a response of the workflow API
Body(ok, workflow_id, analysis, approvalStatus, orgChart) ==
    [ok |-> ok, workflow_id |-> workflow_id, analysis |-> analysis,
     approvalStatus |-> approvalStatus, orgChart |-> orgChart]

\* a response with an HTTP error status
HttpError(workflow_id) == Body(FALSE, workflow_id, None, "none", None)

\* GET /workflows/{workflow_id}
GetWorkflow(docs, w) ==
    IF IsSome(docs[w])
    THEN Body(TRUE, w, Some(Get(docs[w]).analysis),
              Get(docs[w]).approvalStatus, Get(docs[w]).orgChart)
    ELSE HttpError(w)

\* the response of POST /workflows/{workflow_id}/approve: the updated
\* document, which has no analysis field
ApproveResponse(done, w) ==
    IF done.kind = "returned"
    THEN Body(TRUE, w, None, Get(done.docs[w]).approvalStatus,
              Get(done.docs[w]).orgChart)
    ELSE HttpError(w)

InFlight(c) == calls[c].phase \in {"fetching", "responding"}

HasFreeCall == \E c \in CallIds : calls[c].phase = "idle"

FreeCall ==
    CHOOSE c \in CallIds :
        /\ calls[c].phase = "idle"
        /\ \A d \in CallIds : calls[d].phase = "idle" => c <= d

\* a handler is entered and calls fetchJsonWithRetry: the first fetch
StartCall(handler, target) ==
    calls' = [calls EXCEPT ![FreeCall] =
                 [handler |-> handler, target |-> target,
                  phase |-> "fetching", attempt |-> 0, processed |-> 0,
                  created |-> 0, lastError |-> None, outcome |-> "none",
                  response |-> None]]

BackendVars == <<workflows, reply>>

\* handleFileUpload up to the fetch; the button is shown in the upload view
\* and disabled while loading
ClickUpload ==
    /\ HasFreeCall
    /\ ui.selectedWorkflowId = NEW_WORKFLOW_ID
    /\ ~ui.loading
    /\ ui' = [ui EXCEPT !.loading = TRUE, !.error = None]
    /\ StartCall("upload", NEW_WORKFLOW_ID)
    /\ UNCHANGED <<PipelineVars, BackendVars, last_selected>>

\* handleWorkflowSelect up to the fetch
ClickWorkflow ==
    /\ HasFreeCall
    /\ \E w \in WorkflowIds :
        /\ w # ui.selectedWorkflowId
        /\ StartCall("select", w)
        /\ last_selected' = w
    /\ ui' = [ui EXCEPT !.loading = TRUE, !.error = None]
    /\ UNCHANGED <<PipelineVars, BackendVars>>

\* handleSelectNewWorkflow; the button is disabled in the upload view
ClickNewWorkflow ==
    /\ ui.selectedWorkflowId # NEW_WORKFLOW_ID
    /\ ui' = [ui EXCEPT !.selectedWorkflowId = NEW_WORKFLOW_ID,
                        !.error = None]
    /\ last_selected' = NEW_WORKFLOW_ID
    /\ UNCHANGED <<PipelineVars, BackendVars, calls>>

\* the Approve button is rendered for a displayed analysis that is PENDING or
\* APPROVED, and disabled while approving and when APPROVED
ApproveEnabled ==
    /\ ui.selectedWorkflowId # NEW_WORKFLOW_ID
    /\ IsSome(ui.analysisResult)
    /\ IsSome(Get(ui.analysisResult).analysis)
    /\ Get(ui.analysisResult).approvalStatus = "PENDING"
    /\ ~ui.isApproving

\* handleApproveWorkflow up to the fetch
ClickApprove ==
    /\ HasFreeCall
    /\ ApproveEnabled
    /\ ui' = [ui EXCEPT !.isApproving = TRUE, !.error = None]
    /\ StartCall("approve", ui.selectedWorkflowId)
    /\ UNCHANGED <<PipelineVars, BackendVars, last_selected>>

\* the catch and finally clauses of a handler
HandlerFails(state, handler, message) ==
    [state EXCEPT
        !.error = Some(message),
        !.loading = IF handler \in {"upload", "select"} THEN FALSE ELSE @,
        !.isApproving = IF handler = "approve" THEN FALSE ELSE @]

\* setAnalysisResult of handleApproveWorkflow: {...prevResult, ...data}
MergeApproval(prev, data) ==
    [workflow_id |-> data.workflow_id,
     analysis |-> IF IsSome(prev) THEN Get(prev).analysis ELSE None,
     approvalStatus |-> data.approvalStatus,
     orgChart |-> data.orgChart]

\* the rest of the try block of a handler and its finally clause
HandlerSucceeds(state, call, data) ==
    CASE call.handler = "upload" ->
            [state EXCEPT
                !.analysisResult =
                    Some([workflow_id |-> data.workflow_id,
                          analysis |-> data.analysis,
                          approvalStatus |-> data.approvalStatus,
                          orgChart |-> data.orgChart]),
                !.selectedWorkflowId = data.workflow_id,
                !.loading = FALSE]
      [] call.handler = "select" ->
            [state EXCEPT
                !.analysisResult =
                    Some([workflow_id |-> call.target,
                          analysis |-> data.analysis,
                          approvalStatus |-> data.approvalStatus,
                          orgChart |-> data.orgChart]),
                !.selectedWorkflowId = call.target,
                !.loading = FALSE]
      [] call.handler = "approve" ->
            [state EXCEPT
                !.analysisResult = Some(MergeApproval(@, data)),
                !.isApproving = FALSE]

\* the request of a call reaches the backend, which handles it and answers
ServerProcesses(c) ==
    /\ calls[c].phase = "fetching"
    /\ \/ /\ calls[c].handler = "select"
          /\ calls' = [calls EXCEPT
                          ![c].phase = "responding",
                          ![c].processed = @ + 1,
                          ![c].response =
                              Some(GetWorkflow(workflows, calls[c].target))]
          /\ UNCHANGED workflows
       \/ /\ calls[c].handler = "approve"
          /\ \E synthesis \in SynthesisOutcomes :
                LET done == Approve(workflows, calls[c].target,
                                    "frontend_user", synthesis)
                IN  /\ workflows' = done.docs
                    /\ calls' = [calls EXCEPT
                                    ![c].phase = "responding",
                                    ![c].processed = @ + 1,
                                    ![c].response =
                                        Some(ApproveResponse(done,
                                                 calls[c].target))]
       \/ /\ calls[c].handler = "upload"
          /\ \/ \E w \in WorkflowIds :
                  /\ workflows' = [workflows EXCEPT
                                      ![w] = Some(SavedDocument(w))]
                  /\ calls' = [calls EXCEPT
                                  ![c].phase = "responding",
                                  ![c].processed = @ + 1,
                                  ![c].created = @ + 1,
                                  ![c].response =
                                      Some(Body(TRUE, w, Some(w), "PENDING",
                                                None))]
             \/ /\ calls' = [calls EXCEPT
                                ![c].phase = "responding",
                                ![c].processed = @ + 1,
                                ![c].response =
                                    Some(HttpError(NEW_WORKFLOW_ID))]
                /\ UNCHANGED workflows
    /\ UNCHANGED <<PipelineVars, reply, last_selected, ui>>

\* the catch clause of fetchJsonWithRetry for the error err of call c:
\* another attempt after the delay, or the error is thrown to the handler
OnFetchError(c, err) ==
    IF ShouldRetry(err, calls[c].attempt)
    THEN /\ calls' = [calls EXCEPT ![c].phase = "fetching",
                                   ![c].attempt = @ + 1,
                                   ![c].lastError = Some(err),
                                   ![c].response = None]
         /\ UNCHANGED ui
    ELSE /\ calls' = [calls EXCEPT ![c].phase = "done",
                                   ![c].outcome = err,
                                   ![c].response = None]
         /\ ui' = HandlerFails(ui, calls[c].handler, err)

\* fetch rejects with a TypeError: the request or its response was lost
FetchFails(c) ==
    /\ InFlight(c)
    /\ OnFetchError(c, "TypeError")
    /\ UNCHANGED <<PipelineVars, BackendVars, last_selected>>

\* the response of the backend arrives
ResponseArrives(c) ==
    /\ calls[c].phase = "responding"
    /\ IF Get(calls[c].response).ok
       THEN /\ calls' = [calls EXCEPT ![c].phase = "done",
                                      ![c].outcome = "ok",
                                      ![c].response = None]
            /\ ui' = HandlerSucceeds(ui, calls[c], Get(calls[c].response))
       ELSE OnFetchError(c, "Error")
    /\ UNCHANGED <<PipelineVars, BackendVars, last_selected>>

NextFrontend ==
    \/ ClickUpload
    \/ ClickWorkflow
    \/ ClickNewWorkflow
    \/ ClickApprove
    \/ \E c \in CallIds : ServerProcesses(c)
    \/ \E c \in CallIds : FetchFails(c)
    \/ \E c \in CallIds : ResponseArrives(c)

\* the frontend is opened on a collection with two saved analyses
InitFrontend ==
    /\ InitRun
    /\ workflow_text = MIN_WORKFLOW_LENGTH
    /\ workflows = StoredPending

FrontendSpec == InitFrontend /\ [][NextFrontend]_vars


----------------------------------------------------------------------------
\* a stored workflow is displayed
Displayed == ui.selectedWorkflowId # NEW_WORKFLOW_ID /\ IsSome(ui.analysisResult)

Shown == Get(ui.analysisResult)

(* C34: whenever a stored workflow is displayed, the workflow id, the      *)
(* analysis and the org chart of analysisResult are those of               *)
(* selectedWorkflowId, also when the response of an approve request        *)
(* arrives after the user selected another workflow.                       *)
C34_ApprovalAppliedToSelected ==
    Displayed =>
        /\ Shown.workflow_id = ui.selectedWorkflowId
        /\ Shown.analysis = Some(ui.selectedWorkflowId)
        /\ Shown.orgChart \in {None, Some(ui.selectedWorkflowId)}


----------------------------------------------------------------------------
NoRequestInFlight == \A c \in CallIds : ~InFlight(c)

\* the session consisted of workflow selections only, and all succeeded
OnlySuccessfulSelections ==
    /\ last_selected \in WorkflowIds
    /\ \A c \in CallIds :
          calls[c].phase # "idle" =>
              calls[c].handler = "select" /\ calls[c].outcome = "ok"

(* C35: after a sequence of workflow selections whose requests all         *)
(* succeeded, when no request is in flight, selectedWorkflowId and the     *)
(* displayed analysis are those of the workflow the user selected last.    *)
C35_LastSelectionWins ==
    (NoRequestInFlight /\ OnlySuccessfulSelections) =>
        /\ ui.selectedWorkflowId = last_selected
        /\ IsSome(ui.analysisResult)
        /\ Shown.workflow_id = last_selected


----------------------------------------------------------------------------
\* an upload or a selection was started and its handler has not finished
LoadingCalls ==
    {c \in CallIds : InFlight(c) /\ calls[c].handler \in {"upload", "select"}}

(* C38: the loading flag is true exactly when an upload or a selection     *)
(* request is in flight.                                                   *)
C38_LoadingTracksRequests == ui.loading <=> (LoadingCalls # {})


----------------------------------------------------------------------------
\* the invocations of the handlers that post to the backend
PostingCalls ==
    {c \in CallIds : calls[c].handler \in {"upload", "approve"}}

(* C37: for each upload and each Approve click, at most one request        *)
(* reaches the backend, and an upload creates at most one stored analysis. *)
C37_OneRequestPerAction ==
    \A c \in PostingCalls :
        calls[c].processed <= 1 /\ calls[c].created <= 1


----------------------------------------------------------------------------
\* what the network and the backend do for call c: the awaited fetch settles
NetworkStep(c) == ServerProcesses(c) \/ FetchFails(c) \/ ResponseArrives(c)

\* every fetch settles: it is answered or it fails
FrontendFairSpec ==
    FrontendSpec /\ \A c \in CallIds : WF_vars(NetworkStep(c))

Started(c) == calls[c].phase # "idle"

Finished(c) == calls[c].phase = "done"

(* C36: a call of fetchJsonWithRetry makes at most retries + 1 fetch       *)
(* attempts, makes a further attempt only after a TypeError, never after   *)
(* an HTTP error answer, and always ends by returning or throwing.         *)
C36_BoundedRetry ==
    /\ [](\A c \in CallIds : calls[c].attempt + 1 <= retries + 1)
    /\ [][\A c \in CallIds :
            calls'[c].attempt > calls[c].attempt =>
                /\ calls'[c].attempt = calls[c].attempt + 1
                /\ calls'[c].lastError = Some("TypeError")]_vars
    /\ \A c \in CallIds : Started(c) ~> Finished(c)

\* a call that made its second attempt after a TypeError and threw the
\* second TypeError to its handler
C36_Witness ==
    \E c \in CallIds :
        /\ Finished(c)
        /\ calls[c].attempt = retries
        /\ calls[c].lastError = Some("TypeError")
        /\ calls[c].outcome = "TypeError"

=============================================================================
